---- MODULE Spec2Model ----
(***************************************************************************)
(* Model of the web-builder server: the in-memory app store (apps), the    *)
(* quota check, the build pipeline (buildWebAppWithLogs / buildWebApp) and  *)
(* the progress streams (global.buildStreams, sendLog).                     *)
(*                                                                          *)
(* Execution model (Node.js): every handler runs to completion.  A build    *)
(* suspends at `await client.chat.completions.create(...)` (any handler or  *)
(* timer may run meanwhile) and at `await buildWebApp(...)` (the            *)
(* continuation is a promise job: only other promise jobs may run before    *)
(* it, no timer and no request handler).                                    *)
(***************************************************************************)
EXTENDS Integers, Sequences, FiniteSets, TLC

(* ---- bounds of the model ---- *)
NBuilds == 3
NStoreBuilds == 2
NBrokerBuilds == 2
NStreamIds == 2
MaxTime == 2
NConns == 2
MaxSegments == 3
MaxBlocks == 2

(* ---- program constants, scaled down: the source has 1 hour (one clock  *)
(* tick of the model is one hour), 1000 and 10 ---- *)
APP_EXPIRY_TIME == 1
MAX_APPS_TOTAL == 2
MAX_APPS_PER_IP == 1

Builds == 1..NBuilds
StoreBuilds == 1..NStoreBuilds
BrokerBuilds == 1..NBrokerBuilds
AppIds == Builds
Origins == {"ipA", "ipB"}
Prompts == {"build a counter app"}
Conns == 1..NConns
StreamIds == 1..NStreamIds
LookupFns == {"getApp", "getAppFiles", "getAppDetails", "getAppUrl"}

NoApp == [none |-> TRUE]
NoConn == 0
NoIP == "none"
NoFiles == <<>>
NoStats == [totalApps |-> -1, appIds |-> {}]
NoLookup == [id |-> 0, found |-> FALSE, age |-> 0, files |-> NoFiles, url |-> FALSE]

VARIABLES
  apps,          \* the Map `apps`: appId -> appData, NoApp when absent
  now,           \* Date.now()
  pc,            \* position of each build
  ip,            \* userIP of each build
  result,        \* what buildWebAppWithLogs / buildWebApp returned
  genCalled,     \* the completion call was issued for this build
  published,     \* per appId, the types of the sendLog calls so far
  buildStreams,  \* global.buildStreams: appId -> connection
  connApp,       \* appId a connection was opened for (0: never opened)
  connOpen,      \* the connection is still open
  written,       \* per connection, the events written to it
  lastLookup,    \* the last lookup made and what it returned
  openedAt,      \* per connection, the number of events its appId had when it opened
  deleted,       \* the appIds for which deleteApp returned true
  lastStats,     \* what the last call of getAppStats returned
  parser         \* a call of extractFiles: its text, lastIndex, files so far

vars == <<apps, now, pc, ip, result, genCalled, published, buildStreams,
          connApp, connOpen, written, lastLookup, openedAt, deleted, lastStats,
          parser>>

serverVars == <<apps, now, pc, ip, result, genCalled, published, buildStreams,
                connApp, connOpen, written, lastLookup, openedAt, deleted, lastStats>>

storeVars == <<apps, now>>
buildVars == <<pc, ip, result, genCalled>>
streamVars == <<buildStreams, connApp, connOpen>>

(* ---- the store ---- *)

Keys(m) == {id \in AppIds : m[id] # NoApp}

Size(m) == Cardinality(Keys(m))

Age(m, id, t) == t - m[id].createdAt

Expired(m, id, t) == m[id] # NoApp /\ Age(m, id, t) > APP_EXPIRY_TIME

\* cleanupExpiredApps that measures the age from lastAccessed
cleanupExpiredAppsByAccess(m, t) ==
  [id \in AppIds |-> IF m[id] # NoApp /\ t - m[id].lastAccessed > APP_EXPIRY_TIME
                     THEN NoApp ELSE m[id]]

\* cleanupExpiredApps that removes nothing
cleanupExpiredAppsNone(m, t) == m

\* cleanupExpiredApps with >= for >
cleanupExpiredAppsEager(m, t) ==
  [id \in AppIds |-> IF m[id] # NoApp /\ Age(m, id, t) >= APP_EXPIRY_TIME
                     THEN NoApp ELSE m[id]]

\* cleanupExpiredApps: delete every entry with now - createdAt > APP_EXPIRY_TIME
cleanupExpiredApps(m, t) ==
  [id \in AppIds |-> IF Expired(m, id, t) THEN NoApp ELSE m[id]]

\* storeApp that makes room by evicting the oldest session when the store is full
storeAppEvicting(m, appId, files, prompt, userIP, t) ==
  LET victim == CHOOSE id \in Keys(m) : \A o \in Keys(m) : m[id].createdAt <= m[o].createdAt
      room == IF Size(m) >= MAX_APPS_TOTAL THEN [m EXCEPT ![victim] = NoApp] ELSE m
  IN [room EXCEPT ![appId] = [appId |-> appId, files |-> files, prompt |-> prompt,
                             userIP |-> userIP, createdAt |-> t, lastAccessed |-> t]]

\* storeApp that never reaches apps.set
storeAppLost(m, appId, files, prompt, userIP, t) == m

\* storeApp: apps.set(appId, {appId, files, prompt, userIP, createdAt, lastAccessed})
storeApp(m, appId, files, prompt, userIP, t) ==
  [m EXCEPT ![appId] = [appId |-> appId, files |-> files, prompt |-> prompt,
                        userIP |-> userIP, createdAt |-> t, lastAccessed |-> t]]

userApps(m, userIP) == {id \in Keys(m) : m[id].userIP = userIP}

\* checkLimits with the per-IP test made before the global one
limitOutcomePerIPFirst(m, userIP) ==
  IF Cardinality(userApps(m, userIP)) >= MAX_APPS_PER_IP THEN "perIP"
  ELSE IF Size(m) >= MAX_APPS_TOTAL THEN "capacity"
  ELSE "ok"

\* checkLimits, after its cleanup: the error it throws, or "ok"
limitOutcome(m, userIP) ==
  IF Size(m) >= MAX_APPS_TOTAL THEN "capacity"
  ELSE IF Cardinality(userApps(m, userIP)) >= MAX_APPS_PER_IP THEN "perIP"
  ELSE "ok"

\* a lookup that also renews createdAt
touchRenewing(m, id, t) == [m EXCEPT ![id].lastAccessed = t, ![id].createdAt = t]

\* app.lastAccessed = Date.now() of getApp, getAppUrl, getAppFiles, getAppDetails
touch(m, id, t) == [m EXCEPT ![id].lastAccessed = t]

\* deleteApp that empties the store
deleteAppClear(m, id) ==
  IF m[id] = NoApp THEN [ret |-> FALSE, apps |-> m]
  ELSE [ret |-> TRUE, apps |-> [o \in AppIds |-> NoApp]]

\* deleteApp: false when the id is not stored, otherwise apps.delete and true
deleteApp(m, id) ==
  IF m[id] = NoApp THEN [ret |-> FALSE, apps |-> m]
  ELSE [ret |-> TRUE, apps |-> [m EXCEPT ![id] = NoApp]]

\* getAppStats: totalApps is apps.size, appIds the keys
getAppStats(m) == [totalApps |-> Size(m), appIds |-> Keys(m)]

\* a build that ends with the events of a success whatever happened
terminalEventsAlwaysComplete(res) == <<"success", "complete">>

\* the events buildWebAppWithLogs sends after buildWebApp returned its result
terminalEvents(res) == IF res = "ok" THEN <<"success", "complete">> ELSE <<"error">>

\* buildWebAppWithLogs after checkLimits: go on to buildWebApp and its
\* completion call, or (checkLimits threw) log the error in the catch and return
\* without a catch that returns, the build would go on
afterLimitsNoReturn(out) == "awaitGen"

afterLimits(out) == IF out = "ok" THEN "awaitGen" ELSE "done"

(* ---- progress streams ---- *)

\* sendLog that writes the first event of a call sequence only
sendLogsFirstOnly(w, s, appId, types) ==
  IF s[appId] # NoConn
  THEN [w EXCEPT ![s[appId]] = Append(@, types[1])]
  ELSE w

\* sendLog that writes nothing
sendLogsNothing(w, s, appId, types) == w

\* sendLog that writes to every registered connection, whatever its id
sendLogsBroadcast(w, s, appId, types) ==
  [c \in Conns |-> IF \E a \in AppIds : s[a] = c THEN w[c] \o types ELSE w[c]]

\* sendLog(appId, message, type) for a list of types, against stream table s:
\* each event is written to the registered connection, if any
sendLogs(w, s, appId, types) ==
  IF s[appId] # NoConn
  THEN [w EXCEPT ![s[appId]] = @ \o types]
  ELSE w

logged(p, appId, types) == [p EXCEPT ![appId] = @ \o types]

\* a registration that keeps the subscriber already there
registerIfAbsent(s, appId, c) ==
  IF s[appId] = NoConn THEN [s EXCEPT ![appId] = c] ELSE s

\* global.buildStreams[appId] = res
register(s, appId, c) == [s EXCEPT ![appId] = c]

\* a close handler that leaves the table alone
unregisterNothing(s, appId) == s

\* a close handler that empties the table
unregisterAll(s, appId) == [a \in AppIds |-> NoConn]

\* delete global.buildStreams[appId]
unregister(s, appId) == [s EXCEPT ![appId] = NoConn]

\* a stream that replays the events published before it opened
initialMessagesReplay(p, appId) == <<"log">> \o p[appId]

\* what GET /build-stream writes when it opens: the 'Starting to build' message
initialMessages(p, appId) == <<"log">>

(* ---- extractFiles: the text is a sequence of characters ---- *)

Min(S) == CHOOSE x \in S : \A y \in S : x <= y

Max(S) == CHOOSE x \in S : \A y \in S : x >= y

\* \s of the regular expressions, over the characters the texts use
IsSpace(ch) == ch \in {" ", "\n"}

\* \w of the regular expressions, over the characters the texts use
IsWord(ch) == ch \in {"a", "c", "d", "e", "h", "i", "j", "l", "m", "n", "p", "r",
                      "s", "t", "x", "y", "H", "I", "T", "X", "Y", "Z", "_", "0"}

HasPrefix(t, i, p) ==
  /\ i >= 1
  /\ i + Len(p) - 1 <= Len(t)
  /\ \A k \in 1..Len(p) : t[i + k - 1] = p[k]

\* \*\*[^*]+\*\* tried at position i: the position after the match, 0 when
\* there is none
MarkerEnd(t, i) ==
  IF ~HasPrefix(t, i, <<"*", "*">>) THEN 0
  ELSE LET stars == {k \in (i + 2)..Len(t) : t[k] = "*"}
       IN IF stars = {} THEN 0
          ELSE LET j == Min(stars)
               IN IF j > i + 2 /\ HasPrefix(t, j, <<"*", "*">>) THEN j + 2 ELSE 0

\* the alternatives of the lookahead that are literal text.  \Z is not an
\* anchor in a JavaScript regular expression: it matches the letter Z
Terminators ==
  { <<"\n", "\n", "-", "-", "-">>,
    <<"\n", "\n", "T", "h", "a", "t", "'", "s">>,
    <<"\n", "\n", "T", "h", "e">>,
    <<"\n", "\n", "H", "e", "r", "e">>,
    <<"\n", "\n", "T", "h", "i", "s">>,
    <<"\n", "\n", "I", "'", "v", "e">>,
    <<"Z">> }

\* (?=\*\*[^*]+\*\*|\n\n---|...|\Z) at position q
Lookahead(t, q) ==
  \/ MarkerEnd(t, q) # 0
  \/ \E p \in Terminators : HasPrefix(t, q, p)

\* fileRegex tried at position i: marker, \s*\n (greedy: the last newline of
\* the white space after the marker that lets the rest match), then the
\* shortest body that is followed by the lookahead
MatchAt(t, i) ==
  LET e == MarkerEnd(t, i)
      rest == {k \in e..Len(t) : ~IsSpace(t[k])}
      r == IF rest = {} THEN Len(t) + 1 ELSE Min(rest)
      stops(p) == {q \in (p + 1)..Len(t) : Lookahead(t, q)}
      good == {p \in e..(r - 1) : t[p] = "\n" /\ stops(p) # {}}
  IN IF e = 0 \/ good = {}
     THEN [ok |-> FALSE, name |-> <<>>, body |-> <<>>, start |-> 0, end |-> 0]
     ELSE LET p == Max(good)
              q == Min(stops(p))
          IN [ok |-> TRUE, name |-> SubSeq(t, i + 2, e - 3),
              body |-> SubSeq(t, p + 1, q - 1), start |-> i, end |-> q]

\* while ((match = fileRegex.exec(response)) !== null): the matches from
\* lastIndex on, each search starting where the last match ended
RECURSIVE Matches(_, _)
Matches(t, lastIndex) ==
  LET starts == {i \in lastIndex..Len(t) : MatchAt(t, i).ok}
  IN IF starts = {} THEN <<>>
     ELSE LET m == MatchAt(t, Min(starts))
          IN <<m>> \o Matches(t, m.end)

\* String.prototype.trim
Trim(s) ==
  LET keep == {k \in 1..Len(s) : ~IsSpace(s[k])}
  IN IF keep = {} THEN <<>> ELSE SubSeq(s, Min(keep), Max(keep))

\* content.replace(/^FENCE\w*\n?/, ''), FENCE being three backquotes; the
\* texts write a backquote as #
StripOpeningFence(s) ==
  IF ~HasPrefix(s, 1, <<"#", "#", "#">>) THEN s
  ELSE LET rest == {k \in 4..Len(s) : ~IsWord(s[k])}
           k == IF rest = {} THEN Len(s) + 1 ELSE Min(rest)
           from == IF k <= Len(s) /\ s[k] = "\n" THEN k + 1 ELSE k
       IN SubSeq(s, from, Len(s))

\* content.replace(/\n?FENCE$/, '')
StripClosingFence(s) ==
  IF ~HasPrefix(s, Len(s) - 2, <<"#", "#", "#">>) THEN s
  ELSE LET n == Len(s) - 3
       IN IF n >= 1 /\ s[n] = "\n" THEN SubSeq(s, 1, n - 1) ELSE SubSeq(s, 1, n)

\* the cleaned block of a match
CleanBlock(m) ==
  [filename |-> Trim(m.name),
   content |-> StripClosingFence(StripOpeningFence(Trim(m.body)))]

index_html == <<"i", "n", "d", "e", "x", ".", "h", "t", "m", "l">>
style_css == <<"s", "t", "y", "l", "e", ".", "c", "s", "s">>
script_js == <<"s", "c", "r", "i", "p", "t", ".", "j", "s">>

\* generateBasicHTML, generateBasicCSS, generateBasicJS: fixed texts (the
\* response passed to generateBasicHTML is not used)
generateBasicHTML(response) == <<"<", "h", "t", "m", "l", ">">>
generateBasicCSS == <<"*", "{", "}">>
generateBasicJS == <<"j", "s">>

\* the blocks with a filename and a content, as the object `files`: a later
\* block of the same name overwrites an earlier one
FilesOf(blocks) ==
  LET kept == {k \in 1..Len(blocks) :
                 blocks[k].filename # <<>> /\ blocks[k].content # <<>>}
      names == {blocks[k].filename : k \in kept}
  IN [n \in names |-> blocks[Max({k \in kept : blocks[k].filename = n})].content]

\* a fallback that leaves script.js out
BasicFilesNoScript(response) ==
  [n \in {index_html, style_css} |->
     IF n = index_html THEN generateBasicHTML(response) ELSE generateBasicCSS]

\* the fallback of extractFiles
BasicFiles(response) ==
  [n \in {index_html, style_css, script_js} |->
     IF n = index_html THEN generateBasicHTML(response)
     ELSE IF n = style_css THEN generateBasicCSS
     ELSE generateBasicJS]

\* extractFiles without its fallback
extractFilesNoFallback(response) ==
  LET ms == Matches(response, 1)
  IN FilesOf([k \in 1..Len(ms) |-> CleanBlock(ms[k])])

extractFiles(response) ==
  LET ms == Matches(response, 1)
      files == FilesOf([k \in 1..Len(ms) |-> CleanBlock(ms[k])])
  IN IF DOMAIN files = {} THEN BasicFiles(response) ELSE files

\* texts the completion call returns: one block a.txt ended by a rule, a text
\* without a marker, and one block whose body is an empty code fence
a_txt == <<"a", ".", "t", "x", "t">>
Marker(name) == <<"*", "*">> \o name \o <<"*", "*">>
TextOneBlock == Marker(a_txt) \o <<"\n", "X", "\n", "\n", "-", "-", "-">>
TextNoMarker == <<"h", "i">>
TextEmptyFence == Marker(a_txt) \o <<"\n", "#", "#", "#", "\n", "#", "#", "#", "Z">>
Responses == {TextOneBlock, TextNoMarker, TextEmptyFence}

\* the text of the end-to-end scenario: the three blocks the system prompt
\* asks for, the last one running to the end of the text
TextThreeBlocks ==
  Marker(index_html) \o <<"\n", "H", "\n", "\n">> \o
  Marker(style_css) \o <<"\n", "C", "\n", "\n">> \o
  Marker(script_js) \o <<"\n", "J">>
EndToEndResponses == {TextThreeBlocks}

\* extractFiles of each of these texts
Extracted == [response \in Responses \cup EndToEndResponses |-> extractFiles(response)]

(* ---- extractFiles step by step: the loop of exec calls ---- *)

NoMatch == [ok |-> FALSE, name |-> <<>>, body |-> <<>>, start |-> 0, end |-> 0]

\* fileRegex.exec(response) of a global regular expression: the leftmost match
\* that starts at lastIndex or later, NoMatch for null
exec(t, lastIndex) ==
  LET starts == {i \in lastIndex..Len(t) : MatchAt(t, i).ok}
  IN IF starts = {} THEN NoMatch ELSE MatchAt(t, Min(starts))

\* a regular expression whose lastIndex stays at the start of the match
lastIndexStuck(m) == m.start

\* the lastIndex exec leaves after a match: the end of the match (the
\* lookahead is not part of it)
lastIndexAfter(m) == m.end

\* a loop body without the test of filename and content
addBlockAlways(files, blk) ==
  [n \in DOMAIN files \cup {blk.filename} |->
     IF n = blk.filename THEN blk.content ELSE files[n]]

\* if (filename && content) files[filename] = content
addBlock(files, blk) ==
  IF blk.filename # <<>> /\ blk.content # <<>>
  THEN [n \in DOMAIN files \cup {blk.filename} |->
          IF n = blk.filename THEN blk.content ELSE files[n]]
  ELSE files

(* ---- the texts extractFiles is called with ---- *)

RECURSIVE Concat(_)
Concat(parts) == IF parts = <<>> THEN <<>> ELSE Head(parts) \o Concat(Tail(parts))

Rule == <<"\n", "\n", "-", "-", "-">>
Fence == <<"#", "#", "#">>

\* pieces of text: markers (one whose filename is blank), a body on its own
\* line, white space, the letter Z, a rule, a fence, stars that close nothing
Segments ==
  { Marker(<<"a">>), Marker(<<"b">>), Marker(<<" ">>),
    <<"\n", "X">>, <<"\n">>, <<" ">>, <<"Z">>, Rule, Fence,
    <<"*", "*">>, <<"*">> }

SegTexts == {Concat(p) : p \in UNION {[1..n -> Segments] : n \in 1..MaxSegments}}

\* bodies of well-formed blocks, raw as written in the text and core as the
\* file should be: plain, padded with white space, wrapped in a code fence,
\* and one that holds the letter Z
Bodies ==
  { [raw |-> <<"X">>, core |-> <<"X">>],
    [raw |-> <<" ", "X", " ", "\n">>, core |-> <<"X">>],
    [raw |-> Fence \o <<"j", "s", "\n", "X", "\n">> \o Fence, core |-> <<"X">>],
    [raw |-> <<"X", "Z", "X">>, core |-> <<"X", "Z", "X">>] }

Names == {<<"a">>, <<"b">>, <<"c">>}

\* what follows the last block: nothing, or a rule
Endings == {<<>>, Rule}

\* sequences of blocks with distinct filenames
BlockSeqs ==
  {bs \in UNION {[1..n -> [name : Names, body : Bodies]] : n \in 1..MaxBlocks} :
     \A j, k \in 1..Len(bs) : j # k => bs[j].name # bs[k].name}

\* the text of a sequence of blocks: each block is its marker line, its body
\* and a line end
BlocksText(bs) ==
  Concat([k \in 1..Len(bs) |-> Marker(bs[k].name) \o <<"\n">> \o bs[k].body.raw \o <<"\n">>])

\* the well-formed texts with the mapping they stand for
WellFormedCases ==
  {[text |-> BlocksText(bs) \o e,
    expected |-> [n \in {bs[k].name : k \in 1..Len(bs)} |->
                    bs[CHOOSE k \in 1..Len(bs) : bs[k].name = n].body.core]] :
     bs \in BlockSeqs, e \in Endings}

\* texts with a filename given twice, and with a fenced body before a marker
ExtraTexts ==
  { Marker(<<"a">>) \o <<"\n", "X">> \o Marker(<<"a">>) \o <<"\n", "Y", "Z">>,
    Marker(<<"a">>) \o <<"\n">> \o Fence \o <<"\n">> \o Fence \o Marker(<<"b">>) \o <<"\n", "X", "Z">> }

Texts ==
  SegTexts \cup {w.text : w \in WellFormedCases} \cup ExtraTexts
    \cup Responses \cup EndToEndResponses

\* no call of extractFiles under way
NoParser == [pc |-> "idle", text |-> <<>>, lastIndex |-> 1, files |-> NoFiles,
             iterations |-> 0, fallback |-> FALSE]

\* the server after start-up: nothing stored, no build, no stream
InitServer ==
  /\ apps = [id \in AppIds |-> NoApp]
  /\ now = 0
  /\ pc = [b \in Builds |-> "idle"]
  /\ ip = [b \in Builds |-> NoIP]
  /\ result = [b \in Builds |-> "none"]
  /\ genCalled = [b \in Builds |-> FALSE]
  /\ published = [id \in AppIds |-> <<>>]
  /\ buildStreams = [id \in AppIds |-> NoConn]
  /\ connApp = [c \in Conns |-> 0]
  /\ connOpen = [c \in Conns |-> FALSE]
  /\ written = [c \in Conns |-> <<>>]
  /\ lastLookup = NoLookup
  /\ openedAt = [c \in Conns |-> 0]
  /\ deleted = {}
  /\ lastStats = NoStats

Init == InitServer /\ parser = NoParser

\* an event loop that a pending completion call keeps busy
JobPendingStalled == \E b \in Builds : pc[b] \in {"awaitGen", "awaitRet"}

\* a promise job is queued: the continuation after `await buildWebApp(...)`
JobPending == \E b \in Builds : pc[b] = "awaitRet"

\* appIds are fresh: builds take them in request order
NextFresh(b) == pc[b] = "idle" /\ \A c \in Builds : c < b => pc[c] # "idle"

\* POST /build-with-logs that runs the build up to its first suspension
\* inside the handler, without the timer
RequestBuildEager(b, userIP) ==
  /\ ~JobPending
  /\ NextFresh(b)
  /\ LET swept == cleanupExpiredApps(apps, now)
         out == limitOutcome(swept, userIP)
         types == IF out = "ok" THEN <<"log", "log", "log", "log", "log">>
                  ELSE <<"log", "error">>
     IN /\ apps' = swept
        /\ ip' = [ip EXCEPT ![b] = userIP]
        /\ pc' = [pc EXCEPT ![b] = afterLimits(out)]
        /\ genCalled' = [genCalled EXCEPT ![b] = (out = "ok")]
        /\ result' = IF out = "ok" THEN result ELSE [result EXCEPT ![b] = out]
        /\ published' = logged(published, b, types)
        /\ written' = sendLogs(written, buildStreams, b, types)
  /\ UNCHANGED <<now, buildStreams, connApp, connOpen, lastLookup,
                 openedAt, deleted, lastStats, parser>>

\* POST /build-with-logs: answer {success, appId, building} and set the timer
RequestBuild(b, userIP) ==
  /\ ~JobPending
  /\ NextFresh(b)
  /\ pc' = [pc EXCEPT ![b] = "scheduled"]
  /\ ip' = [ip EXCEPT ![b] = userIP]
  /\ UNCHANGED <<apps, now, result, genCalled, published, buildStreams,
                 connApp, connOpen, written, lastLookup,
                 openedAt, deleted, lastStats, parser>>

\* buildWebAppWithLogs up to its first suspension: the timer of
\* /build-with-logs fires (scheduled), or POST /build calls it directly (idle)
StartBuild(b, userIP) ==
  /\ ~JobPending
  /\ \/ pc[b] = "scheduled" /\ userIP = ip[b]
        /\ \A c \in Builds : c < b => pc[c] # "scheduled"
     \/ NextFresh(b)
  /\ LET swept == cleanupExpiredApps(apps, now)
         out == limitOutcome(swept, userIP)
     IN /\ apps' = swept
        /\ ip' = [ip EXCEPT ![b] = userIP]
        /\ pc' = [pc EXCEPT ![b] = afterLimits(out)]
        /\ genCalled' = [genCalled EXCEPT ![b] = (afterLimits(out) = "awaitGen")]
        /\ IF out = "ok"
           THEN /\ result' = result
                /\ published' = logged(published, b, <<"log", "log", "log", "log", "log">>)
                /\ written' = sendLogs(written, buildStreams, b,
                                       <<"log", "log", "log", "log", "log">>)
           ELSE /\ result' = [result EXCEPT ![b] = out]
                /\ published' = logged(published, b, <<"log", "error">>)
                /\ written' = sendLogs(written, buildStreams, b, <<"log", "error">>)
  /\ UNCHANGED <<now, buildStreams, connApp, connOpen, lastLookup,
                 openedAt, deleted, lastStats, parser>>

\* the completion call resolves: buildWebApp extracts the files, stores the
\* app and returns {success: true}
GenReturn(b, response, prompt) ==
  /\ pc[b] = "awaitGen"
  /\ apps' = storeApp(apps, b, Extracted[response], prompt, ip[b], now)
  /\ pc' = [pc EXCEPT ![b] = "awaitRet"]
  /\ result' = [result EXCEPT ![b] = "ok"]
  /\ published' = logged(published, b, <<"log", "log", "log", "log">>)
  /\ written' = sendLogs(written, buildStreams, b, <<"log", "log", "log", "log">>)
  /\ UNCHANGED <<now, ip, genCalled, buildStreams, connApp, connOpen, lastLookup,
                 openedAt, deleted, lastStats, parser>>

\* the completion call rejects, or it resolves with a result that has no
\* choices[0].message (malformed: the 'Received response' log is sent first):
\* the catch of buildWebApp logs an error and returns {success: false}
GenFail(b, malformed) ==
  /\ pc[b] = "awaitGen"
  /\ pc' = [pc EXCEPT ![b] = "awaitRet"]
  /\ result' = [result EXCEPT ![b] = "genError"]
  /\ LET types == IF malformed THEN <<"log", "error">> ELSE <<"error">>
     IN /\ published' = logged(published, b, types)
        /\ written' = sendLogs(written, buildStreams, b, types)
  /\ UNCHANGED <<apps, now, ip, genCalled, buildStreams, connApp, connOpen, lastLookup,
                 openedAt, deleted, lastStats, parser>>

\* buildWebAppWithLogs after `await buildWebApp(...)`
FinishBuild(b) ==
  /\ pc[b] = "awaitRet"
  /\ pc' = [pc EXCEPT ![b] = "done"]
  /\ LET types == terminalEvents(result[b])
     IN /\ published' = logged(published, b, types)
        /\ written' = sendLogs(written, buildStreams, b, types)
  /\ UNCHANGED <<apps, now, ip, result, genCalled, buildStreams, connApp, connOpen,
                 lastLookup,
                 openedAt, deleted, lastStats, parser>>

\* setInterval(cleanupExpiredApps, ...)
Sweep ==
  /\ ~JobPending
  /\ apps' = cleanupExpiredApps(apps, now)
  /\ apps' # apps
  /\ UNCHANGED <<now, pc, ip, result, genCalled, published, buildStreams,
                 connApp, connOpen, written, lastLookup,
                 openedAt, deleted, lastStats, parser>>

\* the files in what a lookup returns: getApp, getAppFiles and getAppDetails
\* return app.files, getAppUrl returns the URL only
\* a lookup that returns the filenames without the contents
returnedFilesNamesOnly(fn, app) ==
  IF fn = "getAppUrl" THEN NoFiles ELSE [n \in DOMAIN app.files |-> <<>>]

returnedFiles(fn, app) == IF fn = "getAppUrl" THEN NoFiles ELSE app.files

\* getApp / getAppFiles / getAppDetails / getAppUrl: apps.get(appId), null when
\* absent, otherwise refresh lastAccessed and return.  lastLookup keeps the id
\* asked for, whether something was returned, the age the session had then,
\* the files returned and whether it was the URL that was returned
Lookup(fn, id) ==
  /\ ~JobPending
  /\ IF apps[id] = NoApp
     THEN /\ apps' = apps
          /\ lastLookup' = [id |-> id, found |-> FALSE, age |-> 0, files |-> NoFiles,
                            url |-> FALSE]
     ELSE /\ apps' = touch(apps, id, now)
          /\ lastLookup' = [id |-> id, found |-> TRUE, age |-> Age(apps, id, now),
                            files |-> returnedFiles(fn, apps[id]),
                            url |-> (fn = "getAppUrl")]
  /\ UNCHANGED <<now, pc, ip, result, genCalled, published, buildStreams,
                 connApp, connOpen, written,
                 openedAt, deleted, lastStats, parser>>

\* DELETE /debug/apps/:appId when deleteApp returns true (when it returns
\* false the handler answers 404 and no variable changes)
DeleteApp(id) ==
  /\ ~JobPending
  /\ deleteApp(apps, id).ret
  /\ apps' = deleteApp(apps, id).apps
  /\ deleted' = deleted \cup {id}
  /\ UNCHANGED <<now, pc, ip, result, genCalled, published, buildStreams,
                 connApp, connOpen, written, lastLookup,
                 openedAt, lastStats, parser>>

\* GET /debug and GET /debug/apps: getAppStats
GetAppStats ==
  /\ ~JobPending
  /\ lastStats' = getAppStats(apps)
  /\ UNCHANGED <<apps, now, pc, ip, result, genCalled, published, buildStreams,
                 connApp, connOpen, written, lastLookup, openedAt, deleted, parser>>

\* GET /build-stream/:appId: register the response and write the first message
\* (connections are numbered in the order they open)
OpenStream(c, id) ==
  /\ ~JobPending
  /\ connApp[c] = 0
  /\ \A d \in Conns : d < c => connApp[d] # 0
  /\ connApp' = [connApp EXCEPT ![c] = id]
  /\ connOpen' = [connOpen EXCEPT ![c] = TRUE]
  /\ buildStreams' = register(buildStreams, id, c)
  /\ written' = [written EXCEPT ![c] = @ \o initialMessages(published, id)]
  /\ openedAt' = [openedAt EXCEPT ![c] = Len(published[id])]
  /\ UNCHANGED <<apps, now, pc, ip, result, genCalled, published, lastLookup,
                 deleted, lastStats, parser>>

\* req.on('close'): delete global.buildStreams[appId]
CloseStream(c) ==
  /\ ~JobPending
  /\ connOpen[c]
  /\ connOpen' = [connOpen EXCEPT ![c] = FALSE]
  /\ buildStreams' = unregister(buildStreams, connApp[c])
  /\ UNCHANGED <<apps, now, pc, ip, result, genCalled, published, connApp,
                 written, lastLookup,
                 openedAt, deleted, lastStats, parser>>

\* the clock advances
Tick ==
  /\ ~JobPending
  /\ now < MaxTime
  /\ now' = now + 1
  /\ UNCHANGED <<apps, pc, ip, result, genCalled, published, buildStreams,
                 connApp, connOpen, written, lastLookup,
                 openedAt, deleted, lastStats, parser>>

\* admission and commit: the builds, the sweep timer, deletion and the clock.
\* The lookups and the progress streams are left to their own specifications:
\* no step of a build reads lastAccessed, lastLookup or a stream.
Next ==
  \/ \E b \in Builds, userIP \in Origins : RequestBuild(b, userIP)
  \/ \E b \in Builds, userIP \in Origins : StartBuild(b, userIP)
  \/ \E b \in Builds, response \in Responses, prompt \in Prompts : GenReturn(b, response, prompt)
  \/ \E b \in Builds, malformed \in BOOLEAN : GenFail(b, malformed)
  \/ \E b \in Builds : FinishBuild(b)
  \/ Sweep
  \/ \E id \in AppIds : DeleteApp(id)
  \/ Tick

Spec == Init /\ [][Next]_vars

\* the store seen through its readers: builds (POST /build) fill it, the
\* lookups read it
NextStore ==
  \/ \E b \in StoreBuilds, userIP \in Origins : StartBuild(b, userIP)
  \/ \E b \in StoreBuilds, response \in Responses, prompt \in Prompts : GenReturn(b, response, prompt)
  \/ \E b \in StoreBuilds, malformed \in BOOLEAN : GenFail(b, malformed)
  \/ \E b \in StoreBuilds : FinishBuild(b)
  \/ Sweep
  \/ \E fn \in LookupFns, id \in StoreBuilds : Lookup(fn, id)
  \/ \E id \in StoreBuilds : DeleteApp(id)
  \/ Tick

SpecStore == Init /\ [][NextStore]_vars

\* the store seen through the statistics of the debug pages
NextStats ==
  \/ \E b \in StoreBuilds, userIP \in Origins : StartBuild(b, userIP)
  \/ \E b \in StoreBuilds, response \in Responses, prompt \in Prompts : GenReturn(b, response, prompt)
  \/ \E b \in StoreBuilds, malformed \in BOOLEAN : GenFail(b, malformed)
  \/ \E b \in StoreBuilds : FinishBuild(b)
  \/ Sweep
  \/ \E id \in StoreBuilds : DeleteApp(id)
  \/ GetAppStats
  \/ Tick

SpecStats == Init /\ [][NextStats]_vars

\* the progress broker: builds publish, subscribers open and close streams.
\* The builds are those of POST /build-with-logs, whose appId the client
\* knows.  The clock stands still, one origin asks and one text comes
\* back: no step of a stream reads the store.
BrokerOrigins == {"ipA"}

BrokerResponses == {TextOneBlock}

NextBroker ==
  \/ \E b \in BrokerBuilds, userIP \in BrokerOrigins : RequestBuild(b, userIP)
  \/ \E b \in BrokerBuilds : pc[b] = "scheduled" /\ StartBuild(b, ip[b])
  \/ \E b \in BrokerBuilds, response \in BrokerResponses, prompt \in Prompts : GenReturn(b, response, prompt)
  \/ \E b \in BrokerBuilds, malformed \in BOOLEAN : GenFail(b, malformed)
  \/ \E b \in BrokerBuilds : FinishBuild(b)
  \/ \E c \in Conns, id \in StreamIds : OpenStream(c, id)
  \/ \E c \in Conns : CloseStream(c)

SpecBroker == Init /\ [][NextBroker]_vars

\* one build of POST /build-with-logs and the subscribers of any id
FirstBuild == {1}

NextOneBuild ==
  \/ \E b \in FirstBuild, userIP \in BrokerOrigins : RequestBuild(b, userIP)
  \/ \E b \in FirstBuild : pc[b] = "scheduled" /\ StartBuild(b, ip[b])
  \/ \E b \in FirstBuild, response \in BrokerResponses, prompt \in Prompts : GenReturn(b, response, prompt)
  \/ \E b \in FirstBuild, malformed \in BOOLEAN : GenFail(b, malformed)
  \/ \E b \in FirstBuild : FinishBuild(b)
  \/ \E c \in Conns, id \in StreamIds : OpenStream(c, id)
  \/ \E c \in Conns : CloseStream(c)

\* that build with its scheduling: the timer of /build-with-logs fires, the
\* completion call returns (with a result or an error), and the promise job
\* after `await buildWebApp` runs
FairBroker ==
  /\ Init /\ [][NextOneBuild]_vars
  /\ \A b \in FirstBuild :
       /\ WF_vars(pc[b] = "scheduled" /\ StartBuild(b, ip[b]))
       /\ WF_vars(\/ \E response \in BrokerResponses, prompt \in Prompts : GenReturn(b, response, prompt)
                  \/ \E malformed \in BOOLEAN : GenFail(b, malformed))
       /\ WF_vars(FinishBuild(b))

\* the end-to-end scenario: one build of POST /build-with-logs whose
\* generation call returns the three blocks, and the subscribers of any id
NextEndToEnd ==
  \/ \E b \in FirstBuild, userIP \in BrokerOrigins : RequestBuild(b, userIP)
  \/ \E b \in FirstBuild : pc[b] = "scheduled" /\ StartBuild(b, ip[b])
  \/ \E b \in FirstBuild, response \in EndToEndResponses, prompt \in Prompts : GenReturn(b, response, prompt)
  \/ \E b \in FirstBuild, malformed \in BOOLEAN : GenFail(b, malformed)
  \/ \E b \in FirstBuild : FinishBuild(b)
  \/ \E c \in Conns, id \in StreamIds : OpenStream(c, id)
  \/ \E c \in Conns : CloseStream(c)

SpecEndToEnd == Init /\ [][NextEndToEnd]_vars

\* one call of extractFiles on any of the texts
InitParse ==
  /\ InitServer
  /\ parser \in {[pc |-> "loop", text |-> t, lastIndex |-> 1, files |-> NoFiles,
                   iterations |-> 0, fallback |-> FALSE] : t \in Texts}

\* one turn of the while loop: exec returns a match, the block is cleaned and
\* kept when it has a filename and a content
ExecMatch ==
  /\ parser.pc = "loop"
  /\ LET m == exec(parser.text, parser.lastIndex)
     IN /\ m.ok
        /\ parser' = [parser EXCEPT !.lastIndex = lastIndexAfter(m),
                                    !.files = addBlock(@, CleanBlock(m)),
                                    !.iterations = @ + 1]
  /\ UNCHANGED serverVars

\* exec returns null: the loop ends, the fallback fills an empty object and
\* extractFiles returns
ExecNull ==
  /\ parser.pc = "loop"
  /\ ~exec(parser.text, parser.lastIndex).ok
  /\ parser' = [parser EXCEPT !.pc = "done",
                              !.fallback = (DOMAIN parser.files = {}),
                              !.files = IF DOMAIN parser.files = {}
                                        THEN BasicFiles(parser.text) ELSE @]
  /\ UNCHANGED serverVars

NextParse == ExecMatch \/ ExecNull

SpecParse == InitParse /\ [][NextParse]_vars

TypeOK ==
  /\ now \in 0..MaxTime
  /\ \A b \in Builds : pc[b] \in {"idle", "scheduled", "awaitGen", "awaitRet", "done"}
  /\ parser.pc \in {"idle", "loop", "done"}

\* the loop of exec calls computes extractFiles
LoopIsExtractFiles ==
  parser.pc = "done" => parser.files = extractFiles(parser.text)

(* ---------------------------------------------------------------------- *)
(* Properties                                                             *)
(* ---------------------------------------------------------------------- *)

Range(q) == {q[i] : i \in 1..Len(q)}

\* the events a step publishes for appId b
NewEvents(b) == SubSeq(published'[b], Len(published[b]) + 1, Len(published'[b]))

\* positions of the terminal events (error, complete) among those published
TerminalAt(b) == {i \in 1..Len(published[b]) : published[b][i] \in {"error", "complete"}}

\* the step in which build b runs its quota check
StartStep(b) == pc[b] \in {"idle", "scheduled"} /\ pc'[b] \in {"awaitGen", "done"}

\* the step in which the quota check refuses build b
RefusedStep(b) == pc[b] \in {"idle", "scheduled"} /\ pc'[b] = "done"

Refused(b) == result[b] \in {"capacity", "perIP"}

\* stored sessions that are not expired
LiveCount == Cardinality({id \in Keys(apps) : ~Expired(apps, id, now)})

\* every session a build has stored is still in the store
NoRemoval == \A c \in Builds : result[c] = "ok" => apps[c] # NoApp

\* C1: the sessions stored for one origin never exceed MAX_APPS_PER_IP
PerOriginCap ==
  \A o \in Origins : Cardinality(userApps(apps, o)) <= MAX_APPS_PER_IP

\* C2: the sessions in the store never exceed MAX_APPS_TOTAL
GlobalCap == Size(apps) <= MAX_APPS_TOTAL

\* C3: admission is one synchronous unit: while a build is between its quota
\* check and its insert, no other build is checked, and nothing is inserted
\* into or removed from the store
AdmissionAtomic ==
  [][\A b \in Builds :
       (pc[b] = "awaitGen" /\ pc'[b] = "awaitGen")
         => /\ Keys(apps') = Keys(apps)
            /\ \A c \in Builds \ {b} : ~StartStep(c)]_vars

\* C4: a lookup of a session older than the TTL returns not-found, swept or not
LookupHidesExpired == lastLookup.found => lastLookup.age <= APP_EXPIRY_TIME

\* C5: with no expiry and no removal, a build of origin o is admitted while
\* fewer than MAX_APPS_PER_IP builds of o were admitted before it (and the
\* store has room), and is refused with the per-origin error once
\* MAX_APPS_PER_IP builds of o were admitted
QuotaSequence ==
  [][\A b \in Builds :
       (now = 0 /\ NoRemoval /\ StartStep(b))
         => LET k == Cardinality({c \in Builds \ {b} : ip[c] = ip'[b] /\ genCalled[c]})
            IN /\ (k < MAX_APPS_PER_IP /\ Size(apps) < MAX_APPS_TOTAL)
                    => pc'[b] = "awaitGen"
               /\ (k >= MAX_APPS_PER_IP /\ Size(apps) < MAX_APPS_TOTAL)
                    => result'[b] = "perIP"]_vars

\* C6: a quota check made while the non-expired sessions number
\* MAX_APPS_TOTAL fails with the capacity error, whatever the origin
GlobalCapFirst ==
  [][\A b \in Builds :
       (StartStep(b) /\ LiveCount = MAX_APPS_TOTAL)
         => (pc'[b] = "done" /\ result'[b] = "capacity")]_vars

\* the global error is given to an origin that is at its own cap too
GlobalCapFirstWitness ==
  \E b \in Builds :
    /\ result[b] = "capacity"
    /\ LiveCount = MAX_APPS_TOTAL
    /\ Cardinality(userApps(apps, ip[b])) >= MAX_APPS_PER_IP

\* C7 as claimed: a refused build leaves the store exactly as it was
RefusalNoMutation ==
  [][\A b \in Builds : RefusedStep(b) => apps' = apps]_vars

\* C7 amended: a refused build removes the sessions older than the TTL and
\* changes nothing else
RefusalOnlySweeps ==
  [][\A b \in Builds :
       RefusedStep(b)
         => apps' = [id \in AppIds |->
                       IF apps[id] # NoApp /\ now - apps[id].createdAt > APP_EXPIRY_TIME
                       THEN NoApp ELSE apps[id]]]_vars

\* a build was refused at a time when a stored session had been swept
RefusalOnlySweepsWitness ==
  \E b, c \in Builds :
    /\ Refused(b)
    /\ now > APP_EXPIRY_TIME
    /\ result[c] = "ok" /\ pc[c] = "done" /\ apps[c] = NoApp

\* C8: a build refused by the quota check has published an error, returned
\* failure, never called the generation and stored nothing under its id
QuotaRefusalStops ==
  \A b \in Builds :
    Refused(b) => /\ pc[b] = "done"
                  /\ ~genCalled[b]
                  /\ apps[b] = NoApp
                  /\ published[b] = <<"log", "error">>

\* a build refused with the per-origin error, after which another build went on
QuotaRefusalStopsWitness ==
  \E b, c \in Builds : result[b] = "perIP" /\ c > b /\ pc[c] = "done"

\* C9: when the complete event of a build is published, its session is in the
\* store with a non-empty file set
CompleteAfterCommit ==
  [][\A b \in Builds :
       "complete" \in Range(NewEvents(b))
         => /\ apps[b] # NoApp /\ apps'[b] # NoApp
            /\ apps'[b].files # NoFiles]_vars

CompleteAfterCommitWitness ==
  \E b \in Builds : "complete" \in Range(published[b]) /\ apps[b] # NoApp

\* C10: a build publishes exactly one terminal event, and it is its last event
OneTerminalEvent ==
  \A b \in Builds :
    /\ Cardinality(TerminalAt(b)) <= 1
    /\ TerminalAt(b) # {} => TerminalAt(b) = {Len(published[b])}
    /\ pc[b] = "done" => Cardinality(TerminalAt(b)) = 1

(* ---- the progress broker ---- *)

\* connection c has been written a terminal event
HasTerminal(c) == \E i \in 1..Len(written[c]) : written[c][i] \in {"error", "complete"}

\* connection c was opened in this step
OpenStep(c) == connApp[c] = 0 /\ connApp'[c] # 0

\* connection c was closed in this step
CloseStep(c) == connOpen[c] /\ ~connOpen'[c]

\* C11 as claimed: once the build is over, a subscriber of its id that is
\* still connected has received a terminal event
SubscriberGetsTerminal ==
  \A c \in Conns, b \in BrokerBuilds :
    (connApp[c] = b /\ connOpen[c] /\ pc[b] = "done") => HasTerminal(c)

\* C11 amended: a subscriber registered for the id of a build that has not
\* yet published a terminal event receives a terminal event, unless it stops
\* being the registered subscriber of that id first
TerminalReachesSubscriber ==
  \A c \in Conns, b \in FirstBuild :
    (buildStreams[b] = c /\ pc[b] \in {"scheduled", "awaitGen"})
      ~> (HasTerminal(c) \/ buildStreams[b] # c)

TerminalReachesSubscriberWitness ==
  \E c \in Conns, b \in FirstBuild :
    /\ buildStreams[b] = c /\ openedAt[c] = 0
    /\ pc[b] = "done" /\ HasTerminal(c)

\* C12: an event published while its id has no subscriber is written to no
\* connection, and a subscriber never holds more than the opening message
\* and the events published since it opened
DroppedForGood ==
  [][/\ \A b \in AppIds :
          (NewEvents(b) # <<>> /\ buildStreams[b] = NoConn) => written' = written
     /\ \A c \in Conns :
          connApp'[c] # 0 =>
            /\ Len(written'[c]) >= 1
            /\ openedAt'[c] + Len(written'[c]) - 1 <= Len(published'[connApp'[c]])
            /\ written'[c] = <<"log">> \o SubSeq(published'[connApp'[c]], openedAt'[c] + 1,
                                               openedAt'[c] + Len(written'[c]) - 1)]_vars

\* a subscriber that attached after the whole build got the opening message only
DroppedForGoodWitness ==
  \E c \in Conns :
    /\ connOpen[c] /\ buildStreams[connApp[c]] = c
    /\ pc[connApp[c]] = "done" /\ openedAt[c] = Len(published[connApp[c]])
    /\ openedAt[c] > 0 /\ written[c] = <<"log">>

\* C13: the events published for an id that has a subscriber are appended, in
\* order and once, to that subscriber and to no other connection
ExactlyOnceInOrder ==
  [][\A b \in AppIds :
       (NewEvents(b) # <<>> /\ buildStreams[b] # NoConn)
         => written' = [written EXCEPT ![buildStreams[b]] = @ \o NewEvents(b)]]_vars

ExactlyOnceInOrderWitness ==
  \E c \in Conns, b \in BrokerBuilds :
    /\ connApp[c] = b /\ openedAt[c] = 0 /\ pc[b] = "done"
    /\ written[c] = <<"log">> \o published[b]
    /\ Len(published[b]) > 2

\* C14: an open replaces the subscriber of its id, and a connection that is
\* not the registered subscriber of its id is written nothing
ReplaceOnOpen ==
  [][/\ \A c \in Conns : OpenStep(c) => buildStreams'[connApp'[c]] = c
     /\ \A c \in Conns :
          (connApp[c] # 0 /\ buildStreams[connApp[c]] # c) => written'[c] = written[c]]_vars

\* a replaced subscriber is still connected while the newer one got events
ReplaceOnOpenWitness ==
  \E c, d \in Conns :
    /\ c # d /\ connApp[c] # 0 /\ connApp[c] = connApp[d]
    /\ connOpen[c] /\ connOpen[d]
    /\ buildStreams[connApp[d]] = d
    /\ Len(written[d]) > 1

\* C15: the close of a connection that is not the registered subscriber of
\* its id leaves the subscriber table as it was
CloseOnlyOwn ==
  [][\A c \in Conns :
       (CloseStep(c) /\ buildStreams[connApp[c]] # c) => buildStreams' = buildStreams]_vars

SweepStep == pc' = pc /\ deleted' = deleted /\ Keys(apps') # Keys(apps)

\* a lookup was answered
LookupStep == lastLookup' # lastLookup

\* the quota check passed and build b stored its session
CommitStep(b) == pc[b] = "awaitGen" /\ result'[b] = "ok"

\* the store without the sessions older than the TTL
WithoutExpired ==
  [id \in AppIds |->
     IF apps[id] # NoApp /\ now - apps[id].createdAt > APP_EXPIRY_TIME
     THEN NoApp ELSE apps[id]]

\* C17: a stored session that is not deleted stays in the store, and is
\* returned by a lookup, while the time is earlier than createdAt + TTL; a
\* sweep (of the timer or of a quota check) at a later time than that removes
\* it, and from then on it is absent and every lookup reports not-found
RetrievableUntilSwept ==
  [][\A id \in StoreBuilds :
       /\ (apps[id] # NoApp /\ id \notin deleted'
             /\ now' - apps[id].createdAt < APP_EXPIRY_TIME) => apps'[id] # NoApp
       /\ (LookupStep /\ lastLookup'.id = id)
             => (lastLookup'.found <=> apps[id] # NoApp)
       /\ ((SweepStep \/ \E b \in StoreBuilds : StartStep(b)) /\ Expired(apps, id, now))
             => apps'[id] = NoApp
       /\ (apps[id] = NoApp /\ result[id] = "ok") => apps'[id] = NoApp]_vars

\* a session that was stored and never deleted is reported not-found
RetrievableUntilSweptWitness ==
  \E b \in StoreBuilds :
    /\ result[b] = "ok" /\ b \notin deleted /\ apps[b] = NoApp
    /\ lastLookup.id = b /\ ~lastLookup.found

\* C18: a sweep removes the sessions with now - createdAt > TTL and leaves
\* every other session, one of age TTL included, as it was
SweepExact == [][SweepStep => apps' = WithoutExpired]_vars

\* an expired session is gone and a session of age TTL is still stored
SweepExactWitness ==
  \E a, b \in Builds :
    /\ result[a] = "ok" /\ a \notin deleted /\ apps[a] = NoApp
    /\ apps[b] # NoApp /\ Age(apps, b, now) = APP_EXPIRY_TIME

\* C19: the quota check counts the sessions of age at most TTL only: it
\* refuses with the capacity error only when those number MAX_APPS_TOTAL or
\* more, with the per-origin error only when those of the origin number
\* MAX_APPS_PER_IP or more, and admits the build when both counts are below
QuotaIgnoresExpired ==
  [][\A b \in Builds :
       StartStep(b) =>
         LET live == {id \in Keys(apps) : now - apps[id].createdAt <= APP_EXPIRY_TIME}
             mine == {id \in live : apps[id].userIP = ip'[b]}
         IN /\ result'[b] = "capacity" => Cardinality(live) >= MAX_APPS_TOTAL
            /\ result'[b] = "perIP" => Cardinality(mine) >= MAX_APPS_PER_IP
            /\ (Cardinality(live) < MAX_APPS_TOTAL /\ Cardinality(mine) < MAX_APPS_PER_IP)
                 => pc'[b] = "awaitGen"]_vars

\* a build was admitted though its origin had stored a session, now expired
QuotaIgnoresExpiredWitness ==
  \E b, c \in Builds :
    /\ c < b /\ ip[b] = ip[c]
    /\ result[c] = "ok" /\ pc[c] = "done" /\ c \notin deleted /\ apps[c] = NoApp
    /\ now > APP_EXPIRY_TIME
    /\ pc[b] = "awaitGen"

\* C20: a quota check and a commit leave every session of age at most TTL in
\* the store, unchanged, and a quota check that finds MAX_APPS_TOTAL such
\* sessions refuses the build
FailClosed ==
  [][\A b \in Builds :
       /\ (StartStep(b) \/ CommitStep(b)) =>
            \A id \in AppIds :
              (apps[id] # NoApp /\ now - apps[id].createdAt <= APP_EXPIRY_TIME)
                => apps'[id] = apps[id]
       /\ (StartStep(b) /\ Cardinality(Keys(WithoutExpired)) >= MAX_APPS_TOTAL)
            => RefusedStep(b)]_vars

\* a build was refused at the cap and the sessions that fill the store are live
FailClosedWitness ==
  \E b \in Builds :
    /\ Refused(b)
    /\ LiveCount >= MAX_APPS_TOTAL
    /\ \A id \in Keys(apps) : id < b

(* ---- deletion, lookups, statistics ---- *)

\* deleteApp returned true for id
DeleteStep(id) == id \in deleted' /\ id \notin deleted

\* C21: deleteApp returns true exactly when the id is stored, a call for an
\* absent id leaves the store as it was, a call that returns true removes
\* the session and no other, a second call then returns false, and every
\* later lookup of the id reports not-found
DeleteContract ==
  [][\A id \in StoreBuilds :
       /\ deleteApp(apps, id).ret <=> apps[id] # NoApp
       /\ apps[id] = NoApp => deleteApp(apps, id).apps = apps
       /\ DeleteStep(id) =>
            /\ apps[id] # NoApp /\ apps'[id] = NoApp
            /\ \A o \in AppIds \ {id} : apps'[o] = apps[o]
            /\ ~deleteApp(apps', id).ret
       /\ (LookupStep /\ lastLookup'.id = id /\ id \in deleted)
            => ~lastLookup'.found]_vars

\* a deleted session is looked up and not found while another is still stored
DeleteContractWitness ==
  \E id, o \in StoreBuilds :
    /\ id \in deleted /\ lastLookup.id = id /\ ~lastLookup.found
    /\ o # id /\ apps[o] # NoApp

\* C22: the files a session is stored with never change while it is stored,
\* and a lookup that returns files returns exactly them, names and contents
RoundTrip ==
  [][\A id \in StoreBuilds :
       /\ CommitStep(id) => apps'[id].files \in {Extracted[r] : r \in Responses}
       /\ (apps[id] # NoApp /\ apps'[id] # NoApp) => apps'[id].files = apps[id].files
       /\ (LookupStep /\ lastLookup'.id = id /\ lastLookup'.found /\ ~lastLookup'.url)
            => lastLookup'.files = apps[id].files]_vars

\* a session read before (its lastAccessed moved) is read again and its files
\* returned, after the other build stored a session
RoundTripWitness ==
  \E id, o \in StoreBuilds :
    /\ lastLookup.id = id /\ lastLookup.found /\ ~lastLookup.url
    /\ lastLookup.files = Extracted[TextOneBlock]
    /\ lastLookup.age > 0
    /\ o # id /\ apps[o] # NoApp

\* C23: a lookup of a stored id sets the lastAccessed of that session to the
\* current time and changes nothing else in the store; a lookup of an id that
\* is not stored changes nothing; no lookup touches a build or a stream
LookupFrame ==
  [][\A id \in StoreBuilds :
       /\ (LookupStep /\ lastLookup'.id = id) =>
            /\ apps' = IF apps[id] = NoApp THEN apps
                       ELSE [apps EXCEPT ![id].lastAccessed = now]
            /\ UNCHANGED <<now, pc, ip, result, genCalled, published, buildStreams,
                           connApp, connOpen, written, deleted>>
       /\ (apps[id] # NoApp /\ apps'[id] # NoApp /\ apps'[id] # apps[id]) =>
            /\ apps'[id] = [apps[id] EXCEPT !.lastAccessed = now]
            /\ \A o \in AppIds \ {id} : apps'[o] = apps[o]]_vars

\* a session was read after the clock moved; another was not
LookupFrameWitness ==
  \E id, o \in StoreBuilds :
    /\ lastLookup.id = id /\ lastLookup.found
    /\ apps[id] # NoApp /\ apps[id].lastAccessed > apps[id].createdAt
    /\ o # id /\ apps[o] # NoApp /\ apps[o].lastAccessed = apps[o].createdAt

\* C24: every stored session has at least one file
NonEmptyFiles == \A id \in AppIds : apps[id] # NoApp => DOMAIN apps[id].files # {}

\* a session stored from a text in which no block was accepted
NonEmptyFilesWitness ==
  \E id \in AppIds :
    apps[id] # NoApp /\ DOMAIN apps[id].files = {index_html, style_css, script_js}

Failures == {"capacity", "perIP", "genError"}

\* C25: once a build has failed (refused by the quota check, or the
\* generation failed) no session is stored under its id, then or later
FailedLeavesNothing ==
  [][\A b \in Builds :
       /\ result[b] \in Failures => apps'[b] = NoApp
       /\ result'[b] \in Failures => apps'[b] = NoApp]_vars

\* one build was refused, another failed in the generation, both returned
FailedLeavesNothingWitness ==
  \E b, c \in Builds :
    /\ pc[b] = "done" /\ result[b] = "genError" /\ apps[b] = NoApp
    /\ pc[c] = "done" /\ Refused(c) /\ apps[c] = NoApp

\* C26: while the generation call of an accepted build is in flight, a
\* session is stored under the id of the build
PendingSessionStored ==
  \A b \in Builds : pc[b] = "awaitGen" => apps[b] # NoApp

\* getAppStats was called
StatsStep == lastStats' # lastStats

\* C27: getAppStats reports the sessions of age at most APP_EXPIRY_TIME, as
\* count and as list
StatsCountLive ==
  [][StatsStep =>
       /\ lastStats'.totalApps = LiveCount
       /\ lastStats'.appIds = {id \in Keys(apps) : ~Expired(apps, id, now)}]_vars

(* ---- the build as a whole ---- *)

Last(q) == q[Len(q)]

\* C28: whatever the quota check and the generation call do, the build comes
\* back with a result, success or failure, and the last event it published is
\* complete for a success and error for a failure
BuildAlwaysResolves ==
  \A b \in Builds :
    /\ pc[b] = "awaitRet" => (result[b] \in {"ok", "genError"} /\ ENABLED FinishBuild(b))
    /\ pc[b] = "done" =>
         /\ result[b] \in {"ok"} \cup Failures
         /\ published[b] # <<>>
         /\ Last(published[b]) = IF result[b] = "ok" THEN "complete" ELSE "error"
         /\ "complete" \in Range(published[b]) <=> result[b] = "ok"

\* the three outcomes: a success, a refusal, a failed generation
BuildAlwaysResolvesWitness ==
  \E a, b, c \in Builds :
    /\ pc[a] = "done" /\ result[a] = "ok"
    /\ pc[b] = "done" /\ Refused(b)
    /\ pc[c] = "done" /\ result[c] = "genError"

\* C29: while the generation call of build b has not returned, every other
\* build takes its next step (the quota check, which it passes when the store
\* has room, the commit, the terminal event) and lookups, deletions and sweeps
\* run; the handlers wait for the promise job of a build that just committed,
\* never for the suspended build
StalledDoesNotBlock ==
  \A b, c \in StoreBuilds :
    (b # c /\ pc[b] = "awaitGen") =>
      /\ pc[c] = "awaitGen" =>
           ENABLED (GenReturn(c, TextOneBlock, "build a counter app") /\ apps'[c] # NoApp)
      /\ pc[c] = "awaitRet" => ENABLED FinishBuild(c)
      /\ (\A d \in Builds : pc[d] # "awaitRet") =>
           /\ \A o \in Origins :
                (/\ NextFresh(c)
                 /\ limitOutcome(cleanupExpiredApps(apps, now), o) = "ok")
                  => ENABLED (StartBuild(c, o) /\ pc'[c] = "awaitGen")
           /\ ENABLED Lookup("getApp", c)
           /\ apps[c] # NoApp => ENABLED DeleteApp(c)
           /\ (\E id \in AppIds : Expired(apps, id, now)) => ENABLED Sweep

\* a build of the same origin, started later, has finished while the first
\* is still waiting for its generation call
StalledDoesNotBlockWitness ==
  \E b, c \in StoreBuilds :
    /\ b < c /\ ip[b] = ip[c]
    /\ pc[b] = "awaitGen"
    /\ pc[c] = "done" /\ result[c] = "ok" /\ Last(published[c]) = "complete"

\* the handler of /build-with-logs answered for build b
RequestStep(b) == pc[b] = "idle" /\ pc'[b] # "idle"

\* C30: the handler of /build-with-logs that answers with the appId makes no
\* quota check, issues no generation call and publishes no event; the quota
\* check, the generation call and every event of the build come in later steps
HandshakeFirst ==
  [][\A b \in BrokerBuilds :
       /\ RequestStep(b) =>
            /\ pc'[b] = "scheduled"
            /\ apps' = apps /\ published'[b] = <<>> /\ ~genCalled'[b]
            /\ result'[b] = "none"
       /\ (StartStep(b) \/ NewEvents(b) # <<>> \/ genCalled'[b] # genCalled[b])
            => pc[b] # "idle"]_vars

\* the response was sent, a subscriber has attached, the build has not started
HandshakeFirstWitness ==
  \E b \in BrokerBuilds, c \in Conns :
    /\ pc[b] = "scheduled" /\ published[b] = <<>> /\ ~genCalled[b]
    /\ connApp[c] = b /\ buildStreams[b] = c

(* ---- the order of the steps of a build ---- *)

\* the moves of a build: accepted (idle to scheduled), quota check with the
\* generation call or a refusal, return of the generation call with parse
\* and commit, terminal event
OrderedSteps ==
  { <<"idle", "scheduled">>, <<"idle", "awaitGen">>, <<"idle", "done">>,
    <<"scheduled", "awaitGen">>, <<"scheduled", "done">>,
    <<"awaitGen", "awaitRet">>, <<"awaitRet", "done">> }

\* the events of a build that went through every step
FullRun ==
  <<"log", "log", "log", "log", "log">> \o <<"log", "log", "log", "log">>
    \o <<"success", "complete">>

\* what the parse of a returned text can give
ParsedFiles == {Extracted[r] : r \in Responses}

\* C31: a build moves through its steps in order: the generation call is
\* issued only in the step whose quota check passed, the session is stored
\* (with the files parsed from the returned text) only when the generation
\* call issued before returns, and complete is published only after that,
\* as the last of the events of all the steps
BuildOrder ==
  [][\A b \in Builds :
       /\ pc'[b] # pc[b] => <<pc[b], pc'[b]>> \in OrderedSteps
       /\ (genCalled'[b] /\ ~genCalled[b]) =>
            /\ StartStep(b)
            /\ limitOutcome(cleanupExpiredApps(apps, now), ip'[b]) = "ok"
            /\ apps'[b] = NoApp
       /\ (apps[b] = NoApp /\ apps'[b] # NoApp) =>
            /\ pc[b] = "awaitGen" /\ pc'[b] = "awaitRet" /\ genCalled[b]
            /\ apps'[b].files \in ParsedFiles
            /\ "complete" \notin Range(published'[b])
       /\ "complete" \in Range(NewEvents(b)) =>
            /\ pc[b] = "awaitRet" /\ pc'[b] = "done"
            /\ genCalled[b] /\ result[b] = "ok"
            /\ published'[b] = FullRun]_vars

\* a build went through every step and its session is stored
BuildOrderWitness ==
  \E b \in Builds :
    /\ pc[b] = "done" /\ genCalled[b] /\ result[b] = "ok"
    /\ published[b] = FullRun /\ apps[b] # NoApp

(* ---- extractFiles ---- *)

\* C32: for a text of N well-formed blocks, followed by nothing or by a
\* rule, extractFiles returns the N entries: each filename with the body
\* without the white space around it and without its code fence
WellFormedExtracted ==
  \A w \in WellFormedCases :
    (parser.pc = "done" /\ parser.text = w.text) => parser.files = w.expected

\* the blocks of a text that the loop keeps
AcceptedBlocks(t) ==
  LET ms == Matches(t, 1)
  IN {k \in 1..Len(ms) :
        CleanBlock(ms[k]).filename # <<>> /\ CleanBlock(ms[k]).content # <<>>}

\* C33: for a text in which no block is accepted extractFiles returns the
\* three entries index.html, style.css and script.js, and another call on
\* the same text returns the same entries
FallbackThree ==
  (parser.pc = "done" /\ AcceptedBlocks(parser.text) = {}) =>
    /\ parser.fallback
    /\ DOMAIN parser.files = {index_html, style_css, script_js}
    /\ parser.files = extractFiles(parser.text)

\* the fallback was taken after a block was matched and thrown away
FallbackThreeWitness ==
  /\ parser.pc = "done" /\ parser.fallback /\ parser.iterations >= 1
  /\ DOMAIN parser.files = {index_html, style_css, script_js}

\* C34: extractFiles has a value for every text, a mapping with at least one
\* entry, which is what the loop returns; no entry, returned or held during
\* the loop, has an empty filename or an empty content
ExtractTotal ==
  /\ DOMAIN extractFiles(parser.text) # {}
  /\ parser.pc = "done" =>
       (parser.files = extractFiles(parser.text) /\ DOMAIN parser.files # {})
  /\ \A n \in DOMAIN parser.files : n # <<>> /\ parser.files[n] # <<>>

\* of two blocks matched, the one with an empty fence was thrown away
ExtractTotalWitness ==
  /\ parser.pc = "done" /\ ~parser.fallback /\ parser.iterations = 2
  /\ DOMAIN parser.files = {<<"b">>}

\* text p occurs in text s
Contains(s, p) == \E i \in 1..(Len(s) + 1) : HasPrefix(s, i, p)

\* C35: the index.html of the fallback contains the text extractFiles was
\* given, and differs from the index.html made for another text
FallbackEmbedsText ==
  (parser.pc = "done" /\ parser.fallback) =>
    /\ Contains(parser.files[index_html], parser.text)
    /\ parser.text # TextNoMarker =>
         parser.files[index_html] # Extracted[TextNoMarker][index_html]

\* C36: every turn of the loop moves lastIndex forward, by at least one
\* character and not past the end of the text, so the turns number at most
\* the length of the text
LoopConsumes ==
  [][parser'.iterations # parser.iterations =>
       /\ parser'.iterations = parser.iterations + 1
       /\ parser'.lastIndex > parser.lastIndex
       /\ parser'.lastIndex <= Len(parser.text) + 1
       /\ parser'.iterations <= Len(parser.text)]_vars

\* the loop made two turns and stopped before the end of a text whose last
\* marker is not closed
LoopConsumesWitness ==
  /\ parser.pc = "done" /\ parser.iterations = 2
  /\ parser.lastIndex <= Len(parser.text)

\* C37: a build whose generation call returned the three blocks index.html,
\* style.css and script.js ends with a session stored under its id whose
\* files are those three, with success, and with complete as the last
\* event published for its id
EndToEnd ==
  \A b \in FirstBuild :
    (pc[b] = "done" /\ result[b] = "ok") =>
      /\ apps[b] # NoApp
      /\ DOMAIN apps[b].files = {index_html, style_css, script_js}
      /\ Last(published[b]) = "complete"

(* ---- lifetime and streams ---- *)

\* C38: the createdAt of a stored session never changes, a lookup leaves a
\* session as expired or as live as it was, and a sweep (of the timer or of
\* a quota check) removes a session older than the TTL however recently it
\* was read
ReadsDoNotExtend ==
  [][\A id \in StoreBuilds :
       /\ (apps[id] # NoApp /\ apps'[id] # NoApp)
            => apps'[id].createdAt = apps[id].createdAt
       /\ (LookupStep /\ lastLookup'.id = id /\ apps[id] # NoApp)
            => /\ apps'[id] # NoApp
               /\ Expired(apps', id, now') <=> Expired(apps, id, now)
       /\ (/\ apps[id] # NoApp
           /\ now - apps[id].createdAt > APP_EXPIRY_TIME
           /\ apps[id].lastAccessed > apps[id].createdAt
           /\ SweepStep \/ \E b \in StoreBuilds : StartStep(b))
            => apps'[id] = NoApp]_vars

\* a session was read when it had reached the TTL and is swept all the same
ReadsDoNotExtendWitness ==
  \E id \in StoreBuilds :
    /\ lastLookup.id = id /\ lastLookup.found
    /\ lastLookup.age >= APP_EXPIRY_TIME
    /\ result[id] = "ok" /\ id \notin deleted /\ apps[id] = NoApp

\* C39: a step that publishes events for an id writes nothing to a
\* connection that was opened for another id
EventsIsolated ==
  [][\A a \in AppIds, c \in Conns :
       (NewEvents(a) # <<>> /\ connApp[c] # a) => written'[c] = written[c]]_vars

\* two subscribers of two ids, each written the events of its own build
EventsIsolatedWitness ==
  \E c, d \in Conns :
    /\ connApp[c] = 1 /\ connApp[d] = 2
    /\ buildStreams[1] = c /\ buildStreams[2] = d
    /\ Len(written[c]) > 1 /\ Len(written[d]) > 1
    /\ Len(written[c]) # Len(written[d])

\* a step of build b: its position moves or it publishes
BuildStep(b) == pc'[b] # pc[b] \/ NewEvents(b) # <<>>

\* C40 as claimed: the subscriber of the id of a finished build stays
\* registered until its own connection closes
SubscriberStaysUntilOwnClose ==
  [][\A b \in BrokerBuilds, c \in Conns :
       (pc[b] = "done" /\ buildStreams[b] = c /\ ~CloseStep(c))
         => buildStreams'[b] = c]_vars

\* C40 amended: no step of a build changes the subscriber table; the entry
\* of an id is removed only by the close of a connection opened for that id,
\* and changed otherwise only by a later open for that id, which replaces it
OnlyDisconnectUnregisters ==
  [][/\ (\E b \in BrokerBuilds : BuildStep(b)) => buildStreams' = buildStreams
     /\ \A id \in AppIds :
          (buildStreams[id] # NoConn /\ buildStreams'[id] # buildStreams[id]) =>
            \/ /\ buildStreams'[id] = NoConn
               /\ \E c \in Conns : CloseStep(c) /\ connApp[c] = id
            \/ \E c \in Conns :
                 OpenStep(c) /\ connApp'[c] = id /\ buildStreams'[id] = c]_vars

\* the build is over, its subscriber got the terminal event and is still
\* registered, and the subscriber of the other id has left
OnlyDisconnectUnregistersWitness ==
  \E b \in BrokerBuilds, c, d \in Conns :
    /\ pc[b] = "done" /\ buildStreams[b] = c /\ connOpen[c] /\ HasTerminal(c)
    /\ connApp[d] # 0 /\ connApp[d] # b /\ ~connOpen[d]

====
